---- MODULE Spec2Model ----
(***************************************************************************)
(* TabSaver popup (popup.js): the in-memory session list, the persisted    *)
(* chrome.storage.local area, the host tab API and every async handler of  *)
(* the popup, one action per synchronous run-to-completion segment of a    *)
(* handler (a handler is cut at each await).                                *)
(***************************************************************************)
EXTENDS Integers, Sequences, FiniteSets, TLC

(***************************************************************************)
(* Bounds of the model.                                                    *)
(***************************************************************************)
\* the clock (Date.now()) runs from StartClock to StartClock + MaxTicks
MaxTicks == 1
\* first value of the clock; sessions persisted by earlier popups are older
StartClock == 10
\* most user actions (clicks, key presses) the popup receives before it closes
MaxClicks == 2

(***************************************************************************)
(* Strings are sequences of one-character strings, so that trim(),         *)
(* parseInt() and number formatting are computed, not assumed.             *)
(***************************************************************************)
IsSpace(c) == c \in {" ", "\t"}

RECURSIVE TrimStart(_)
TrimStart(s) ==
  IF s = <<>> THEN <<>>
  ELSE IF IsSpace(Head(s)) THEN TrimStart(Tail(s)) ELSE s

RECURSIVE TrimEnd(_)
TrimEnd(s) ==
  IF s = <<>> THEN <<>>
  ELSE IF IsSpace(s[Len(s)]) THEN TrimEnd(SubSeq(s, 1, Len(s) - 1)) ELSE s

\* a trim() that strips nothing
TrimNothing(s) == s

\* String.prototype.trim
Trim(s) == TrimEnd(TrimStart(s))

Digits == <<"0", "1", "2", "3", "4", "5", "6", "7", "8", "9">>

\* String(n) for a non-negative integer: its decimal digits
RECURSIVE NumToString(_)
NumToString(n) ==
  IF n < 10 THEN <<Digits[n + 1]>>
  ELSE NumToString(n \div 10) \o <<Digits[(n % 10) + 1]>>

DigitValue(c) == CHOOSE d \in 0..9 : Digits[d + 1] = c

\* parseInt(s) for a string of decimal digits
RECURSIVE ParseInt(_)
ParseInt(s) ==
  IF Len(s) = 1 THEN DigitValue(s[1])
  ELSE 10 * ParseInt(SubSeq(s, 1, Len(s) - 1)) + DigitValue(s[Len(s)])

\* new Date().toLocaleString(): a non-blank rendering of the time
ToLocaleString(t) == NumToString(t)

\* `Session ${timestamp}`
DefaultName(t) == <<"S", "e", "s", "s", "i", "o", "n", " ">> \o ToLocaleString(t)

(***************************************************************************)
(* Sequence helpers (Array.prototype methods used by the popup).           *)
(***************************************************************************)
\* a splice(i, 2): it takes the next element along
SpliceTwo(s, i) == SubSeq(s, 1, i - 1) \o SubSeq(s, i + 2, Len(s))

\* Array.prototype.splice(i, 1)
Splice(s, i) == SubSeq(s, 1, i - 1) \o SubSeq(s, i + 1, Len(s))

\* a display order that keeps the storage order (no reverse())
SameOrder(s) == s

\* Array.prototype.slice().reverse()
Reverse(s) == [i \in 1..Len(s) |-> s[Len(s) + 1 - i]]

\* a lookup that falls back to the last element when nothing matches
FindIndexOrLast(list, timestamp) ==
  IF \E i \in 1..Len(list) : list[i].timestamp = timestamp
  THEN CHOOSE i \in 1..Len(list) :
         /\ list[i].timestamp = timestamp
         /\ \A j \in 1..(i - 1) : list[j].timestamp # timestamp
  ELSE Len(list)

\* Array.prototype.findIndex(s => s.timestamp === timestamp); 0 stands for -1
FindIndex(list, timestamp) ==
  IF \E i \in 1..Len(list) : list[i].timestamp = timestamp
  THEN CHOOSE i \in 1..Len(list) :
         /\ list[i].timestamp = timestamp
         /\ \A j \in 1..(i - 1) : list[j].timestamp # timestamp
  ELSE 0

(***************************************************************************)
(* Values.                                                                 *)
(***************************************************************************)
\* currentRenameTimestamp = null
Null == 0

TabA == [title |-> "A", url |-> "https://a.test"]
TabB == [title |-> "B", url |-> "chrome://b"]

\* what chrome.tabs.query({currentWindow: true}) may return: the host's tab
\* objects carry more than title and url (here: id)
HostTab(t, id) == [id |-> id, title |-> t.title, url |-> t.url]
HostTabLists ==
  { <<HostTab(TabA, 1), HostTab(TabB, 2)>>,
    <<HostTab(TabB, 1), HostTab(TabB, 2)>> }

\* what the user may have typed into sessionNameInput when saving
SaveInputs == { <<>>, <<" ", "\t">>, <<" ", "w", " ">> }

\* what the user may type into renameInput before confirming
RenameInputs == { <<>>, <<" ">>, <<"r", " ">> }

\* sessions written by earlier popups
OldSession1 ==
  [name |-> <<"w">>, tabs |-> <<TabA>>, timestamp |-> StartClock - 3, tabCount |-> 1]
OldSession2 ==
  [name |-> DefaultName(StartClock - 2), tabs |-> <<TabA, TabB>>,
   timestamp |-> StartClock - 2, tabCount |-> 2]
OldSession3 ==
  [name |-> <<"w">>, tabs |-> <<TabB, TabB>>, timestamp |-> StartClock - 1, tabCount |-> 2]

\* a value of a chrome.storage.local key: absent, or present with a value
Absent(v) == [has |-> FALSE, val |-> v]
Present(v) == [has |-> TRUE, val |-> v]

InitialStores ==
  { Absent(<<>>), Present(<<>>), Present(<<OldSession1>>),
    Present(<<OldSession1, OldSession2, OldSession3>>) }

VARIABLES
  sessions,               \* let sessions = []
  currentRenameTimestamp, \* let currentRenameTimestamp = null
  storage,                \* chrome.storage.local: keys sessions, darkMode
  tasks,                  \* suspended handlers and their pending host requests
  darkTasks,              \* the pending requests for the darkMode key
  now,                    \* the host clock, Date.now()
  sessionNameInput,       \* #sessionNameInput.value
  renameInput,            \* #renameInput.value
  modalHidden,            \* #renameModal has class hidden
  dark,                   \* documentElement has class dark
  sunIconHidden,          \* #sunIcon has class hidden
  cards,                  \* the .session-card elements, top to bottom
  emptyHidden,            \* #emptyState has class hidden
  feedback,               \* the toast appended last by showFeedback
  event,                  \* what the last step did (observation only)
  clicks,                 \* user actions received so far
  clean                   \* no write was rejected, no read failed, no delete or rename ran

vars ==
  <<sessions, currentRenameTimestamp, storage, tasks, darkTasks, now,
    sessionNameInput, renameInput, modalHidden, dark, sunIconHidden, cards, emptyHidden,
    feedback, event, clicks, clean>>

(***************************************************************************)
(* Records.                                                                *)
(***************************************************************************)
\* a suspended handler: op is the handler, pc the request it awaits
\*   pc = "query"   awaiting chrome.tabs.query
\*   pc = "create"  awaiting chrome.tabs.create
\*   pc = "queued"  its chrome.storage.local request is not served yet
\*   pc = "ok"/"err" the request was served, the continuation has not run yet
\* name is the local sessionName, list the payload of a set or the result of
\* a get, has/bool the rest of a get's result, tabs/k/reqs the restore loop;
\* input and t0 remember what the user typed and when (observation only)
Task(op, pc) ==
  [op |-> op, pc |-> pc, name |-> <<>>, input |-> <<>>, t0 |-> 0, list |-> <<>>,
   has |-> FALSE, bool |-> FALSE, tabs |-> <<>>, k |-> 0, reqs |-> <<>>]

\* the observation of one step
Ev(op, step) ==
  [op |-> op, step |-> step, ts |-> 0, input |-> <<>>, t0 |-> 0, list |-> <<>>,
   tabs |-> <<>>, reqs |-> <<>>]

NoFeedback == [message |-> <<>>, type |-> "none"]

\* showFeedback(message, type): the toast it appends
Toast(message, type) == [message |-> message, type |-> type]

\* `Opened ${n} tab${n !== 1 ? 's' : ''}`
OpenedMessage(n) ==
  <<"Opened ">> \o NumToString(n) \o <<" tab">> \o (IF n # 1 THEN <<"s">> ELSE <<>>)

\* a map that first drops the browser's own pages
TabDataWithoutInternal(hostTabs) ==
  LET kept == SelectSeq(hostTabs, LAMBDA t : t.url # TabB.url)
  IN [j \in 1..Len(kept) |-> [title |-> kept[j].title, url |-> kept[j].url]]

\* tabs.map(tab => ({title: tab.title, url: tab.url}))
TabData(hostTabs) ==
  [j \in 1..Len(hostTabs) |-> [title |-> hostTabs[j].title, url |-> hostTabs[j].url]]

\* a sessionName taken from the input without trim()
SessionNameUntrimmed(v, t) == IF v = <<>> THEN DefaultName(t) ELSE v

\* the sessionName of saveCurrentTabs for the typed text v at time t
SessionName(v, t) == IF Trim(v) = <<>> THEN DefaultName(t) ELSE Trim(v)

\* a newSession whose tabCount counts from the last index
NewSessionCountOff(sessionName, tabData, t) ==
  [name |-> sessionName, tabs |-> tabData, timestamp |-> t, tabCount |-> Len(tabData) - 1]

\* const newSession = { name, tabs, timestamp: Date.now(), tabCount }
NewSession(sessionName, tabData, t) ==
  [name |-> sessionName, tabs |-> tabData, timestamp |-> t, tabCount |-> Len(tabData)]

\* a rename that replaces the record by a fresh one and loses its tabs
RenamedAfresh(list, index, newName) ==
  [list EXCEPT ![index] = [name |-> newName, tabs |-> <<>>,
                           timestamp |-> list[index].timestamp, tabCount |-> 0]]

\* sessions[index].name = newName
Renamed(list, index, newName) == [list EXCEPT ![index].name = newName]

\* result.sessions || []
LoadResult(r) == IF r.has THEN r.val ELSE <<>>

\* a create request that activates the tab
CreateRequestActive(tab) == [url |-> tab.url, active |-> TRUE]

\* the request chrome.tabs.create receives for a stored tab
CreateRequest(tab) == [url |-> tab.url, active |-> FALSE]

\* createSessionCard: what a card shows and carries in dataset.timestamp
Card(session) ==
  [timestamp |-> NumToString(session.timestamp), name |-> session.name,
   badge |-> session.tabCount]

\* renderSessions: the cards after a render of list
RenderedCards(list) == Reverse([i \in 1..Len(list) |-> Card(list[i])])

\* a renderSessions that hides the empty state whatever the list holds
RenderedEmptyHiddenAlways(list) == TRUE

\* renderSessions: whether #emptyState is hidden after a render of list
RenderedEmptyHidden(list) == Len(list) # 0

(***************************************************************************)
(* The queue of the storage area and the tasks in flight.                  *)
(***************************************************************************)
\* the first task of ts whose pc is in pcs (0: none)
First(ts, pcs) ==
  IF \E i \in 1..Len(ts) : ts[i].pc \in pcs
  THEN CHOOSE i \in 1..Len(ts) :
         /\ ts[i].pc \in pcs
         /\ \A j \in 1..(i - 1) : ts[j].pc \notin pcs
  ELSE 0

\* chrome.storage.local serves the requests of one extension in issue order:
\* the request served next is the oldest one queued (0: none). Requests for
\* the two keys commute, so each key has its queue: tasks holds the requests
\* for sessions, darkTasks those for darkMode
FirstQueued == First(tasks, {"queued"})
FirstQueuedDark == First(darkTasks, {"queued"})

\* the storage area answers in the order it served (0: no answer waiting)
FirstServed == First(tasks, {"ok", "err"})
FirstServedDark == First(darkTasks, {"ok", "err"})

\* a handler issues a storage request: it joins the end of the queue
Enqueue(ts, t) == Append(ts, t)

\* a request was answered and its handler ran on: task i leaves
Dequeue(ts, i) == SubSeq(ts, 1, i - 1) \o SubSeq(ts, i + 1, Len(ts))

Init ==
  /\ sessions = <<>>
  /\ currentRenameTimestamp = Null
  /\ \E s \in InitialStores : storage = [sessions |-> s, darkMode |-> Absent(FALSE)]
  \* the DOMContentLoaded handler has run: loadSessions() and
  \* initializeDarkMode() have issued their reads, in this order
  /\ tasks = <<Task("load", "queued")>>
  /\ darkTasks = <<Task("darkInit", "queued")>>
  /\ now = StartClock
  /\ sessionNameInput = <<>>
  /\ renameInput = <<>>
  /\ modalHidden = TRUE
  /\ dark = FALSE
  /\ sunIconHidden = TRUE
  /\ cards = <<>>
  /\ emptyHidden \in BOOLEAN
  /\ feedback = NoFeedback
  /\ event = Ev("init", "init")
  /\ clicks = 0
  /\ clean = TRUE

\* one more user action reaches the popup; opening the rename modal is not
\* counted: it only selects the target of the next confirm
Click == clicks < MaxClicks /\ clicks' = clicks + 1

Inputs == <<sessionNameInput, renameInput>>
Modal == <<modalHidden, currentRenameTimestamp>>
Theme == <<dark, sunIconHidden, darkTasks>>
View == <<cards, emptyHidden>>

(***************************************************************************)
(* The clock.                                                              *)
(***************************************************************************)
Tick ==
  /\ now < StartClock + MaxTicks
  /\ now' = now + 1
  /\ event' = Ev("clock", "tick")
  /\ UNCHANGED <<sessions, storage, tasks, Inputs, Modal, Theme, View, feedback,
                 clicks, clean>>

(***************************************************************************)
(* saveCurrentTabs                                                         *)
(***************************************************************************)
\* a save that refuses a blank name, the way confirmRename does
SaveClickValidates(v) ==
  /\ Click
  /\ sessionNameInput' = v
  /\ IF Trim(v) = <<>>
     THEN /\ feedback' = Toast(<<"Please enter a name">>, "error")
          /\ UNCHANGED tasks
     ELSE /\ tasks' = Append(tasks, [Task("save", "query") EXCEPT
                                       !.name = SessionName(v, now), !.input = v, !.t0 = now])
          /\ UNCHANGED feedback
  /\ event' = [Ev("save", "start") EXCEPT !.input = v, !.t0 = now]
  /\ UNCHANGED <<sessions, storage, now, renameInput, Modal, Theme, View, clean>>

\* lines 141-158: the user has typed v; up to the await of chrome.tabs.query
SaveClick(v) ==
  /\ Click
  /\ sessionNameInput' = v
  /\ tasks' = Append(tasks, [Task("save", "query") EXCEPT
                               !.name = SessionName(v, now), !.input = v, !.t0 = now])
  /\ event' = [Ev("save", "start") EXCEPT !.input = v, !.t0 = now]
  /\ UNCHANGED <<sessions, storage, now, renameInput, Modal, Theme, View, feedback,
                 clean>>

\* an optimistic save: it reports success as soon as it has pushed the
\* session, before the write
TabsQueryResolveOptimistic(i, hostTabs) ==
  /\ i \in 1..Len(tasks)
  /\ tasks[i].op = "save" /\ tasks[i].pc = "query"
  /\ LET newSession == NewSession(tasks[i].name, TabData(hostTabs), now)
         pushed == Append(sessions, newSession)
     IN /\ sessions' = pushed
        /\ tasks' = Enqueue(Dequeue(tasks, i),
                            [tasks[i] EXCEPT !.pc = "queued", !.list = pushed])
        /\ event' = [Ev("save", "pushed") EXCEPT
                       !.ts = now, !.input = tasks[i].input, !.t0 = tasks[i].t0,
                       !.tabs = hostTabs, !.list = pushed]
  /\ feedback' = Toast(<<"Session saved successfully!">>, "success")
  /\ UNCHANGED <<storage, now, Inputs, Modal, Theme, View, clicks, clean>>

\* lines 158-183: the query resolves with hostTabs; up to the await of set
TabsQueryResolve(i, hostTabs) ==
  /\ i \in 1..Len(tasks)
  /\ tasks[i].op = "save" /\ tasks[i].pc = "query"
  /\ LET newSession == NewSession(tasks[i].name, TabData(hostTabs), now)
         pushed == Append(sessions, newSession)
     IN /\ sessions' = pushed
        /\ tasks' = Enqueue(Dequeue(tasks, i),
                            [tasks[i] EXCEPT !.pc = "queued", !.list = pushed])
        /\ event' = [Ev("save", "pushed") EXCEPT
                       !.ts = now, !.input = tasks[i].input, !.t0 = tasks[i].t0,
                       !.tabs = hostTabs, !.list = pushed]
  /\ UNCHANGED <<storage, now, Inputs, Modal, Theme, View, feedback, clicks, clean>>

\* a catch block that never returns: the handler stays suspended
TabsQueryRejectHangs(i) ==
  /\ i \in 1..Len(tasks)
  /\ tasks[i].op = "save" /\ tasks[i].pc = "query"
  /\ tasks' = [tasks EXCEPT ![i].pc = "hung"]
  /\ feedback' = Toast(<<"Error saving session">>, "error")
  /\ event' = [Ev("save", "queryRejected") EXCEPT
                 !.input = tasks[i].input, !.t0 = tasks[i].t0]
  /\ UNCHANGED <<sessions, storage, now, Inputs, Modal, Theme, View, clicks, clean>>

\* lines 158, 195-199: the query rejects: the catch block
TabsQueryReject(i) ==
  /\ i \in 1..Len(tasks)
  /\ tasks[i].op = "save" /\ tasks[i].pc = "query"
  /\ tasks' = Dequeue(tasks, i)
  /\ feedback' = Toast(<<"Error saving session">>, "error")
  /\ event' = [Ev("save", "queryRejected") EXCEPT
                 !.input = tasks[i].input, !.t0 = tasks[i].t0]
  /\ UNCHANGED <<sessions, storage, now, Inputs, Modal, Theme, View, clicks, clean>>

\* a save whose catch block rolls back: it pops the session it pushed
SaveResumeRollsBack ==
  LET i == FirstServed IN
  /\ i # 0
  /\ tasks[i].op = "save"
  /\ tasks' = Dequeue(tasks, i)
  /\ IF tasks[i].pc = "ok"
     THEN /\ sessionNameInput' = <<>>
          /\ cards' = RenderedCards(sessions)
          /\ emptyHidden' = RenderedEmptyHidden(sessions)
          /\ feedback' = Toast(<<"Session saved successfully!">>, "success")
          /\ event' = [Ev("save", "done") EXCEPT !.list = tasks[i].list]
          /\ UNCHANGED sessions
     ELSE /\ sessions' = SubSeq(sessions, 1, Len(sessions) - 1)
          /\ feedback' = Toast(<<"Error saving session">>, "error")
          /\ event' = [Ev("save", "failed") EXCEPT !.list = tasks[i].list]
          /\ UNCHANGED <<sessionNameInput, View>>
  /\ UNCHANGED <<storage, now, renameInput, Modal, Theme, clicks, clean>>

\* lines 183-199: the continuation after the await of set
SaveResume ==
  LET i == FirstServed IN
  /\ i # 0
  /\ tasks[i].op = "save"
  /\ tasks' = Dequeue(tasks, i)
  /\ IF tasks[i].pc = "ok"
     THEN /\ sessionNameInput' = <<>>
          /\ cards' = RenderedCards(sessions)
          /\ emptyHidden' = RenderedEmptyHidden(sessions)
          /\ feedback' = Toast(<<"Session saved successfully!">>, "success")
          /\ event' = [Ev("save", "done") EXCEPT !.list = tasks[i].list]
     ELSE /\ feedback' = Toast(<<"Error saving session">>, "error")
          /\ event' = [Ev("save", "failed") EXCEPT !.list = tasks[i].list]
          /\ UNCHANGED <<sessionNameInput, View>>
  /\ UNCHANGED <<sessions, storage, now, renameInput, Modal, Theme, clicks, clean>>

(***************************************************************************)
(* chrome.storage.local, key sessions                                      *)
(***************************************************************************)
\* the storage area serves set({sessions: list}): it applies it or rejects it
StorageSetSessions(ok) ==
  LET i == FirstQueued IN
  /\ i # 0
  /\ tasks[i].op \in {"save", "delete", "rename"}
  /\ storage' = IF ok THEN [storage EXCEPT !.sessions = Present(tasks[i].list)]
                ELSE storage
  /\ tasks' = [tasks EXCEPT ![i].pc = IF ok THEN "ok" ELSE "err"]
  /\ event' = [Ev(tasks[i].op, IF ok THEN "written" ELSE "rejected") EXCEPT
                 !.ts = tasks[i].t0, !.list = tasks[i].list]
  /\ clean' = (clean /\ ok)
  /\ UNCHANGED <<sessions, now, Inputs, Modal, Theme, View, feedback, clicks>>

\* the storage area serves get(['sessions']): it answers or rejects
StorageGetSessions(ok) ==
  LET i == FirstQueued IN
  /\ i # 0
  /\ tasks[i].op = "load"
  /\ tasks' = IF ok
              THEN [tasks EXCEPT ![i].pc = "ok", ![i].has = storage.sessions.has,
                                 ![i].list = storage.sessions.val]
              ELSE [tasks EXCEPT ![i].pc = "err"]
  /\ event' = Ev("load", IF ok THEN "read" ELSE "readRejected")
  /\ clean' = (clean /\ ok)
  /\ UNCHANGED <<sessions, storage, now, Inputs, Modal, Theme, View, feedback, clicks>>

\* a loadSessions without the "|| []": an absent key makes renderSessions
\* throw on sessions.length and the catch block runs
LoadResumeNoDefault ==
  LET i == FirstServed IN
  /\ i # 0
  /\ tasks[i].op = "load"
  /\ tasks' = Dequeue(tasks, i)
  /\ IF tasks[i].pc = "ok" /\ tasks[i].has
     THEN /\ sessions' = tasks[i].list
          /\ cards' = RenderedCards(tasks[i].list)
          /\ emptyHidden' = RenderedEmptyHidden(tasks[i].list)
          /\ event' = [Ev("load", "done") EXCEPT !.list = tasks[i].list]
     ELSE /\ event' = Ev("load", "failed")
          /\ UNCHANGED <<sessions, View>>
  /\ UNCHANGED <<storage, now, Inputs, Modal, Theme, feedback, clicks, clean>>

(***************************************************************************)
(* loadSessions                                                            *)
(***************************************************************************)
\* lines 207-212: the continuation after the await of get(['sessions'])
LoadResume ==
  LET i == FirstServed IN
  /\ i # 0
  /\ tasks[i].op = "load"
  /\ tasks' = Dequeue(tasks, i)
  /\ IF tasks[i].pc = "ok"
     THEN LET loaded == LoadResult([has |-> tasks[i].has, val |-> tasks[i].list])
          IN /\ sessions' = loaded
             /\ cards' = RenderedCards(loaded)
             /\ emptyHidden' = RenderedEmptyHidden(loaded)
             /\ event' = [Ev("load", "done") EXCEPT !.list = loaded]
     ELSE /\ event' = Ev("load", "failed")
          /\ UNCHANGED <<sessions, View>>
  /\ UNCHANGED <<storage, now, Inputs, Modal, Theme, feedback, clicks, clean>>

(***************************************************************************)
(* Dark mode: initializeDarkMode, toggleDarkMode, key darkMode             *)
(***************************************************************************)
\* the storage area serves get(['darkMode']): it answers or fails
StorageGetDarkMode(ok) ==
  LET i == FirstQueuedDark IN
  /\ i # 0
  /\ darkTasks[i].op = "darkInit"
  /\ darkTasks' = IF ok
                  THEN [darkTasks EXCEPT ![i].pc = "ok", ![i].has = storage.darkMode.has,
                                         ![i].bool = storage.darkMode.val]
                  ELSE [darkTasks EXCEPT ![i].pc = "err"]
  /\ event' = Ev("darkInit", IF ok THEN "read" ELSE "readRejected")
  /\ UNCHANGED <<sessions, storage, tasks, now, Inputs, Modal, dark, sunIconHidden,
                 View, feedback, clicks, clean>>

\* lines 107-113: the callback of get(['darkMode']); when the read failed the
\* callback throws on result.darkMode and changes nothing
DarkInitResume ==
  LET i == FirstServedDark IN
  /\ i # 0
  /\ darkTasks[i].op = "darkInit"
  /\ darkTasks' = Dequeue(darkTasks, i)
  /\ LET isDark == darkTasks[i].pc = "ok" /\ darkTasks[i].has /\ darkTasks[i].bool
     IN IF isDark
        THEN dark' = TRUE /\ sunIconHidden' = FALSE
        ELSE UNCHANGED <<dark, sunIconHidden>>
  /\ event' = Ev("darkInit", "done")
  /\ UNCHANGED <<sessions, storage, tasks, now, Inputs, Modal, View, feedback, clicks,
                 clean>>

\* lines 116-120: toggleDarkMode
ToggleDarkMode ==
  /\ Click
  /\ dark' = ~dark
  /\ sunIconHidden' = dark
  /\ darkTasks' = Enqueue(darkTasks, [Task("dark", "queued") EXCEPT !.bool = ~dark])
  /\ event' = Ev("dark", "toggled")
  /\ UNCHANGED <<sessions, storage, tasks, now, Inputs, Modal, View, feedback, clean>>

\* a set that replaces the whole storage area by the item it is given
StorageSetDarkModeReplacesAll(ok) ==
  LET i == FirstQueuedDark IN
  /\ i # 0
  /\ darkTasks[i].op = "dark"
  /\ storage' = IF ok THEN [sessions |-> Absent(<<>>),
                            darkMode |-> Present(darkTasks[i].bool)]
                ELSE storage
  /\ darkTasks' = Dequeue(darkTasks, i)
  /\ event' = Ev("dark", IF ok THEN "written" ELSE "rejected")
  /\ UNCHANGED <<sessions, tasks, now, Inputs, Modal, dark, sunIconHidden, View,
                 feedback, clicks, clean>>

\* the storage area serves set({darkMode: isDark}); nothing awaits the answer
StorageSetDarkMode(ok) ==
  LET i == FirstQueuedDark IN
  /\ i # 0
  /\ darkTasks[i].op = "dark"
  /\ storage' = IF ok THEN [storage EXCEPT !.darkMode = Present(darkTasks[i].bool)]
                ELSE storage
  /\ darkTasks' = Dequeue(darkTasks, i)
  /\ event' = Ev("dark", IF ok THEN "written" ELSE "rejected")
  /\ UNCHANGED <<sessions, tasks, now, Inputs, Modal, dark, sunIconHidden, View,
                 feedback, clicks, clean>>

(***************************************************************************)
(* The buttons of a card call the by-timestamp handlers with               *)
(* parseInt(this.dataset.timestamp).                                       *)
(***************************************************************************)
CardTimestamp(c) == ParseInt(cards[c].timestamp)

NotFoundToast == Toast(<<"Error: Session not found">>, "error")

(***************************************************************************)
(* openSessionByTimestamp                                                  *)
(***************************************************************************)
\* a restore that issues every chrome.tabs.create at once (no await in the
\* loop) and then waits for them
OpenClickAllAtOnce(c) ==
  /\ Click
  /\ c \in 1..Len(cards)
  /\ LET timestamp == CardTimestamp(c)
         index == FindIndex(sessions, timestamp)
     IN IF index = 0
        THEN /\ feedback' = NotFoundToast
             /\ event' = [Ev("open", "notFound") EXCEPT !.ts = timestamp]
             /\ UNCHANGED tasks
        ELSE LET session == sessions[index]
             IN IF session.tabs = <<>>
                THEN /\ feedback' = Toast(OpenedMessage(0), "success")
                     /\ event' = [Ev("open", "done") EXCEPT !.ts = timestamp]
                     /\ UNCHANGED tasks
                ELSE /\ tasks' = Append(tasks, [Task("open", "create") EXCEPT
                                     !.tabs = session.tabs, !.k = 1, !.t0 = timestamp,
                                     !.reqs = [j \in 1..Len(session.tabs) |->
                                                 CreateRequest(session.tabs[j])]])
                     /\ event' = [Ev("open", "start") EXCEPT
                                    !.ts = timestamp, !.tabs = session.tabs]
                     /\ UNCHANGED feedback
  /\ UNCHANGED <<sessions, storage, now, Inputs, Modal, Theme, View, clean>>

\* lines 389-401: the open button (or the card) of card c is clicked; up to
\* the await of the first chrome.tabs.create
OpenClick(c) ==
  /\ Click
  /\ c \in 1..Len(cards)
  /\ LET timestamp == CardTimestamp(c)
         index == FindIndex(sessions, timestamp)
     IN IF index = 0
        THEN /\ feedback' = NotFoundToast
             /\ event' = [Ev("open", "notFound") EXCEPT !.ts = timestamp]
             /\ UNCHANGED tasks
        ELSE LET session == sessions[index]
             IN IF session.tabs = <<>>
                THEN /\ feedback' = Toast(OpenedMessage(0), "success")
                     /\ event' = [Ev("open", "done") EXCEPT !.ts = timestamp]
                     /\ UNCHANGED tasks
                ELSE /\ tasks' = Append(tasks, [Task("open", "create") EXCEPT
                                     !.tabs = session.tabs, !.k = 1, !.t0 = timestamp,
                                     !.reqs = <<CreateRequest(session.tabs[1])>>])
                     /\ event' = [Ev("open", "start") EXCEPT
                                    !.ts = timestamp, !.tabs = session.tabs]
                     /\ UNCHANGED feedback
  /\ UNCHANGED <<sessions, storage, now, Inputs, Modal, Theme, View, clean>>

\* a restore that consumes the session: it drops it once all tabs are open
TabCreateResolveConsumes(i) ==
  /\ i \in 1..Len(tasks)
  /\ tasks[i].op = "open" /\ tasks[i].pc = "create"
  /\ LET t == tasks[i]
         index == FindIndex(sessions, t.t0)
     IN IF t.k < Len(t.tabs)
        THEN /\ tasks' = [tasks EXCEPT ![i].k = t.k + 1,
                            ![i].reqs = Append(t.reqs, CreateRequest(t.tabs[t.k + 1]))]
             /\ event' = [Ev("open", "next") EXCEPT !.ts = t.t0]
             /\ UNCHANGED <<feedback, sessions>>
        ELSE /\ tasks' = Dequeue(tasks, i)
             /\ sessions' = IF index = 0 THEN sessions ELSE Splice(sessions, index)
             /\ feedback' = Toast(OpenedMessage(Len(t.tabs)), "success")
             /\ event' = [Ev("open", "done") EXCEPT
                            !.ts = t.t0, !.tabs = t.tabs, !.reqs = t.reqs]
  /\ UNCHANGED <<storage, now, Inputs, Modal, Theme, View, clicks, clean>>

\* lines 400-404: a create resolves; the loop issues the next one or ends
TabCreateResolve(i) ==
  /\ i \in 1..Len(tasks)
  /\ tasks[i].op = "open" /\ tasks[i].pc = "create"
  /\ LET t == tasks[i]
     IN IF t.k < Len(t.tabs)
        THEN /\ tasks' = [tasks EXCEPT ![i].k = t.k + 1,
                            ![i].reqs = Append(t.reqs, CreateRequest(t.tabs[t.k + 1]))]
             /\ event' = [Ev("open", "next") EXCEPT !.ts = t.t0]
             /\ UNCHANGED feedback
        ELSE /\ tasks' = Dequeue(tasks, i)
             /\ feedback' = Toast(OpenedMessage(Len(t.tabs)), "success")
             /\ event' = [Ev("open", "done") EXCEPT
                            !.ts = t.t0, !.tabs = t.tabs, !.reqs = t.reqs]
  /\ UNCHANGED <<sessions, storage, now, Inputs, Modal, Theme, View, clicks, clean>>

\* a restore with the try/catch inside the loop: a rejected creation is
\* reported and the loop goes on with the next record
TabCreateRejectContinues(i) ==
  /\ i \in 1..Len(tasks)
  /\ tasks[i].op = "open" /\ tasks[i].pc = "create"
  /\ LET t == tasks[i]
     IN tasks' = IF t.k < Len(t.tabs)
                 THEN [tasks EXCEPT ![i].k = t.k + 1,
                         ![i].reqs = Append(t.reqs, CreateRequest(t.tabs[t.k + 1]))]
                 ELSE Dequeue(tasks, i)
  /\ feedback' = Toast(<<"Error opening session">>, "error")
  /\ event' = [Ev("open", "failed") EXCEPT
                 !.ts = tasks[i].t0, !.tabs = tasks[i].tabs, !.reqs = tasks[i].reqs]
  /\ UNCHANGED <<sessions, storage, now, Inputs, Modal, Theme, View, clicks, clean>>

\* lines 401, 405-408: a create rejects: the catch block ends the loop
TabCreateReject(i) ==
  /\ i \in 1..Len(tasks)
  /\ tasks[i].op = "open" /\ tasks[i].pc = "create"
  /\ tasks' = Dequeue(tasks, i)
  /\ feedback' = Toast(<<"Error opening session">>, "error")
  /\ event' = [Ev("open", "failed") EXCEPT
                 !.ts = tasks[i].t0, !.tabs = tasks[i].tabs, !.reqs = tasks[i].reqs]
  /\ UNCHANGED <<sessions, storage, now, Inputs, Modal, Theme, View, clicks, clean>>

(***************************************************************************)
(* deleteSessionByTimestamp                                                *)
(***************************************************************************)
\* a delete that asks but does not wait for the answer: the session is
\* removed and the write issued even when the user cancels
DeleteClickIgnoresAnswer(c, answer) ==
  /\ Click
  /\ c \in 1..Len(cards)
  /\ LET timestamp == CardTimestamp(c)
         index == FindIndex(sessions, timestamp)
     IN IF index = 0
        THEN /\ feedback' = NotFoundToast
             /\ event' = [Ev("delete", "notFound") EXCEPT !.ts = timestamp]
             /\ UNCHANGED <<sessions, tasks, clean>>
        ELSE LET spliced == Splice(sessions, index)
             IN /\ sessions' = spliced
                /\ tasks' = Enqueue(tasks, [Task("delete", "queued") EXCEPT
                                              !.list = spliced, !.t0 = timestamp])
                /\ event' = [Ev("delete", IF answer THEN "spliced" ELSE "cancelled")
                               EXCEPT !.ts = timestamp, !.list = spliced]
                /\ clean' = FALSE
                /\ UNCHANGED feedback
  /\ UNCHANGED <<storage, now, Inputs, Modal, Theme, View>>

\* lines 429-462: the delete button of card c is clicked and the user answers
\* the confirm() prompt; up to the await of set
DeleteClick(c, answer) ==
  /\ Click
  /\ c \in 1..Len(cards)
  /\ LET timestamp == CardTimestamp(c)
         index == FindIndex(sessions, timestamp)
     IN IF index = 0
        THEN /\ feedback' = NotFoundToast
             /\ event' = [Ev("delete", "notFound") EXCEPT !.ts = timestamp]
             /\ UNCHANGED <<sessions, tasks, clean>>
        ELSE IF ~answer
        THEN /\ event' = [Ev("delete", "cancelled") EXCEPT !.ts = timestamp]
             /\ UNCHANGED <<sessions, tasks, feedback, clean>>
        ELSE LET spliced == Splice(sessions, index)
             IN /\ sessions' = spliced
                /\ tasks' = Enqueue(tasks, [Task("delete", "queued") EXCEPT
                                              !.list = spliced, !.t0 = timestamp])
                /\ event' = [Ev("delete", "spliced") EXCEPT
                               !.ts = timestamp, !.list = spliced]
                /\ clean' = FALSE
                /\ UNCHANGED feedback
  /\ UNCHANGED <<storage, now, Inputs, Modal, Theme, View>>

\* lines 462-475: the continuation after the await of set
DeleteResume ==
  LET i == FirstServed IN
  /\ i # 0
  /\ tasks[i].op = "delete"
  /\ tasks' = Dequeue(tasks, i)
  /\ IF tasks[i].pc = "ok"
     THEN /\ cards' = RenderedCards(sessions)
          /\ emptyHidden' = RenderedEmptyHidden(sessions)
          /\ feedback' = Toast(<<"Session deleted">>, "success")
          /\ event' = [Ev("delete", "done") EXCEPT
                         !.ts = tasks[i].t0, !.list = tasks[i].list]
     ELSE /\ feedback' = Toast(<<"Error deleting session">>, "error")
          /\ event' = [Ev("delete", "failed") EXCEPT
                         !.ts = tasks[i].t0, !.list = tasks[i].list]
          /\ UNCHANGED View
  /\ UNCHANGED <<sessions, storage, now, Inputs, Modal, Theme, clicks, clean>>

(***************************************************************************)
(* The rename modal                                                        *)
(***************************************************************************)
\* lines 490-509: the rename button of card c is clicked
OpenRenameModal(c) ==
  /\ UNCHANGED clicks
  /\ c \in 1..Len(cards)
  /\ LET timestamp == CardTimestamp(c)
         index == FindIndex(sessions, timestamp)
     IN IF index = 0
        THEN /\ feedback' = NotFoundToast
             /\ event' = [Ev("renameOpen", "notFound") EXCEPT !.ts = timestamp]
             /\ UNCHANGED <<currentRenameTimestamp, renameInput, modalHidden>>
        ELSE /\ currentRenameTimestamp' = timestamp
             /\ renameInput' = sessions[index].name
             /\ modalHidden' = FALSE
             /\ event' = [Ev("renameOpen", "opened") EXCEPT !.ts = timestamp]
             /\ UNCHANGED feedback
  /\ UNCHANGED <<sessions, storage, tasks, now, sessionNameInput, Theme, View,
                 clean>>

\* lines 521-525: the cancel button, or a click on the modal background
CloseRenameModal ==
  /\ Click
  /\ modalHidden' = TRUE
  /\ currentRenameTimestamp' = Null
  /\ event' = Ev("renameClose", "closed")
  /\ UNCHANGED <<sessions, storage, tasks, now, Inputs, Theme, View, feedback,
                 clean>>

\* a confirm that gives up on a blank name: it closes the modal
ConfirmRenameClosesOnBlank(v) ==
  /\ Click
  /\ renameInput' = v
  /\ LET newName == Trim(v)
         index == FindIndex(sessions, currentRenameTimestamp)
     IN IF currentRenameTimestamp = Null
        THEN /\ event' = [Ev("rename", "noTarget") EXCEPT !.input = v]
             /\ UNCHANGED <<sessions, tasks, feedback, clean, Modal>>
        ELSE IF newName = <<>>
        THEN /\ feedback' = Toast(<<"Please enter a name">>, "error")
             /\ event' = [Ev("rename", "blank") EXCEPT
                            !.ts = currentRenameTimestamp, !.input = v]
             /\ modalHidden' = TRUE
             /\ currentRenameTimestamp' = Null
             /\ UNCHANGED <<sessions, tasks, clean>>
        ELSE IF index = 0
        THEN /\ feedback' = NotFoundToast
             /\ event' = [Ev("rename", "notFound") EXCEPT
                            !.ts = currentRenameTimestamp, !.input = v]
             /\ UNCHANGED <<sessions, tasks, clean, Modal>>
        ELSE LET renamed == Renamed(sessions, index, newName)
             IN /\ sessions' = renamed
                /\ tasks' = Enqueue(tasks, [Task("rename", "queued") EXCEPT
                                              !.list = renamed, !.name = newName,
                                              !.t0 = currentRenameTimestamp])
                /\ event' = [Ev("rename", "renamed") EXCEPT
                               !.ts = currentRenameTimestamp, !.input = v,
                               !.list = renamed]
                /\ clean' = FALSE
                /\ UNCHANGED <<feedback, Modal>>
  /\ UNCHANGED <<storage, now, sessionNameInput, Theme, View>>

\* lines 527-550: the user leaves v in renameInput and confirms; up to the
\* await of set
ConfirmRename(v) ==
  /\ Click
  /\ renameInput' = v
  /\ LET newName == Trim(v)
         index == FindIndex(sessions, currentRenameTimestamp)
     IN IF currentRenameTimestamp = Null
        THEN /\ event' = [Ev("rename", "noTarget") EXCEPT !.input = v]
             /\ UNCHANGED <<sessions, tasks, feedback, clean>>
        ELSE IF newName = <<>>
        THEN /\ feedback' = Toast(<<"Please enter a name">>, "error")
             /\ event' = [Ev("rename", "blank") EXCEPT
                            !.ts = currentRenameTimestamp, !.input = v]
             /\ UNCHANGED <<sessions, tasks, clean>>
        ELSE IF index = 0
        THEN /\ feedback' = NotFoundToast
             /\ event' = [Ev("rename", "notFound") EXCEPT
                            !.ts = currentRenameTimestamp, !.input = v]
             /\ UNCHANGED <<sessions, tasks, clean>>
        ELSE LET renamed == Renamed(sessions, index, newName)
             IN /\ sessions' = renamed
                /\ tasks' = Enqueue(tasks, [Task("rename", "queued") EXCEPT
                                              !.list = renamed, !.name = newName,
                                              !.t0 = currentRenameTimestamp])
                /\ event' = [Ev("rename", "renamed") EXCEPT
                               !.ts = currentRenameTimestamp, !.input = v,
                               !.list = renamed]
                /\ clean' = FALSE
                /\ UNCHANGED feedback
  /\ UNCHANGED <<storage, now, sessionNameInput, Modal, Theme, View>>

\* lines 550-562: the continuation after the await of set
RenameResume ==
  LET i == FirstServed IN
  /\ i # 0
  /\ tasks[i].op = "rename"
  /\ tasks' = Dequeue(tasks, i)
  /\ IF tasks[i].pc = "ok"
     THEN /\ cards' = RenderedCards(sessions)
          /\ emptyHidden' = RenderedEmptyHidden(sessions)
          /\ modalHidden' = TRUE
          /\ currentRenameTimestamp' = Null
          /\ feedback' = Toast(<<"Session renamed">>, "success")
          /\ event' = [Ev("rename", "done") EXCEPT
                         !.ts = tasks[i].t0, !.list = tasks[i].list]
     ELSE /\ feedback' = Toast(<<"Error renaming session">>, "error")
          /\ event' = [Ev("rename", "failed") EXCEPT
                         !.ts = tasks[i].t0, !.list = tasks[i].list]
          /\ UNCHANGED <<View, Modal>>
  /\ UNCHANGED <<sessions, storage, now, Inputs, Theme, clicks, clean>>

(***************************************************************************)
(* The popup and its hosts.                                                *)
(***************************************************************************)
\* the session list, its storage key and the tab API
NextSessions ==
  \/ Tick
  \/ \E v \in SaveInputs : SaveClick(v)
  \/ \E i \in 1..Len(tasks), hostTabs \in HostTabLists : TabsQueryResolve(i, hostTabs)
  \/ \E i \in 1..Len(tasks) : TabsQueryReject(i)
  \/ SaveResume
  \/ \E ok \in BOOLEAN : StorageSetSessions(ok)
  \/ \E ok \in BOOLEAN : StorageGetSessions(ok)
  \/ LoadResume
  \/ \E c \in 1..Len(cards) : OpenClick(c)
  \/ \E i \in 1..Len(tasks) : TabCreateResolve(i)
  \/ \E i \in 1..Len(tasks) : TabCreateReject(i)
  \/ \E c \in 1..Len(cards), answer \in BOOLEAN : DeleteClick(c, answer)
  \/ DeleteResume
  \/ \E c \in 1..Len(cards) : OpenRenameModal(c)
  \/ CloseRenameModal
  \/ \E v \in RenameInputs \cup {renameInput} : ConfirmRename(v)
  \/ RenameResume

\* the dark-mode preference and its storage key
NextDarkMode ==
  \/ \E ok \in BOOLEAN : StorageGetDarkMode(ok)
  \/ DarkInitResume
  \/ ToggleDarkMode
  \/ \E ok \in BOOLEAN : StorageSetDarkMode(ok)

Next == NextSessions \/ NextDarkMode

\* the whole popup
SpecAll == Init /\ [][Next]_vars

\* the popup while the user leaves the dark-mode toggle alone and the
\* darkMode read of initializeDarkMode stays pending; no step of NextDarkMode
\* reads or writes a variable that a step of NextSessions reads
Spec == Init /\ [][NextSessions]_vars

\* the steps that are not the user's: the host settles a pending call (it
\* resolves or rejects it) and the event loop runs the continuation that
\* waits for it
HostOrResume ==
  \/ \E i \in 1..Len(tasks), hostTabs \in HostTabLists : TabsQueryResolve(i, hostTabs)
  \/ \E i \in 1..Len(tasks) : TabsQueryReject(i)
  \/ \E ok \in BOOLEAN : StorageSetSessions(ok)
  \/ \E ok \in BOOLEAN : StorageGetSessions(ok)
  \/ \E i \in 1..Len(tasks) : TabCreateResolve(i)
  \/ \E i \in 1..Len(tasks) : TabCreateReject(i)
  \/ SaveResume
  \/ LoadResume
  \/ DeleteResume
  \/ RenameResume

\* the popup opened on a storage area that holds one session
InitLive == Init /\ storage.sessions = Present(<<OldSession1>>)

\* the popup where every host call is eventually settled and every
\* continuation whose promise has settled eventually runs
SpecLive == InitLive /\ [][NextSessions]_vars /\ WF_vars(HostOrResume)

(***************************************************************************)
(* background.js: the onInstalled listener of the service worker.  Its     *)
(* storage requests join the queue of the sessions key; the service worker *)
(* runs its callback on its own, whatever the popup is doing.              *)
(***************************************************************************)
\* the storage area serves the get(['sessions'], cb) of the install handler
StorageGetInstall(ok) ==
  LET i == FirstQueued IN
  /\ i # 0
  /\ tasks[i].op = "install"
  /\ tasks' = IF ok
              THEN [tasks EXCEPT ![i].pc = "answered", ![i].has = storage.sessions.has,
                                 ![i].list = storage.sessions.val]
              ELSE [tasks EXCEPT ![i].pc = "unanswered"]
  /\ event' = Ev("install", IF ok THEN "read" ELSE "readRejected")
  /\ UNCHANGED <<sessions, storage, now, Inputs, Modal, Theme, View, feedback, clicks,
                 clean>>

\* background.js lines 57-65: the callback of get; when the read failed the
\* callback throws on result.sessions and nothing is written
InstallCallback(i) ==
  /\ i \in 1..Len(tasks)
  /\ tasks[i].op = "install" /\ tasks[i].pc \in {"answered", "unanswered"}
  /\ IF tasks[i].pc = "answered" /\ ~tasks[i].has
     THEN /\ tasks' = Enqueue(Dequeue(tasks, i), Task("installSet", "queued"))
          /\ event' = Ev("install", "initialising")
     ELSE /\ tasks' = Dequeue(tasks, i)
          /\ event' = Ev("install", "done")
  /\ UNCHANGED <<sessions, storage, now, Inputs, Modal, Theme, View, feedback, clicks,
                 clean>>

\* the storage area serves the set({ sessions: [] }) of the install handler;
\* nothing awaits the answer
StorageSetInstall(ok) ==
  LET i == FirstQueued IN
  /\ i # 0
  /\ tasks[i].op = "installSet"
  /\ storage' = IF ok THEN [storage EXCEPT !.sessions = Present(<<>>)] ELSE storage
  /\ tasks' = Dequeue(tasks, i)
  /\ event' = Ev("installSet", IF ok THEN "written" ELSE "rejected")
  /\ UNCHANGED <<sessions, now, Inputs, Modal, Theme, View, feedback, clicks, clean>>

\* the extension was just installed (nothing is stored yet) and the popup is
\* opened while the get of the install handler is pending: the two reads
\* reach the storage area in either order
InitInstall ==
  /\ sessions = <<>>
  /\ currentRenameTimestamp = Null
  /\ storage = [sessions |-> Absent(<<>>), darkMode |-> Absent(FALSE)]
  /\ tasks \in { <<Task("install", "queued"), Task("load", "queued")>>,
                 <<Task("load", "queued"), Task("install", "queued")>> }
  /\ darkTasks = <<Task("darkInit", "queued")>>
  /\ now = StartClock
  /\ sessionNameInput = <<>>
  /\ renameInput = <<>>
  /\ modalHidden = TRUE
  /\ dark = FALSE
  /\ sunIconHidden = TRUE
  /\ cards = <<>>
  /\ emptyHidden \in BOOLEAN
  /\ feedback = NoFeedback
  /\ event = Ev("init", "init")
  /\ clicks = 0
  /\ clean = TRUE

NextInstall ==
  \/ NextSessions
  \/ \E ok \in BOOLEAN : StorageGetInstall(ok)
  \/ \E i \in 1..Len(tasks) : InstallCallback(i)
  \/ \E ok \in BOOLEAN : StorageSetInstall(ok)

\* the popup next to the install handler of the service worker
SpecInstall == InitInstall /\ [][NextInstall]_vars

\* what the darkMode key may hold when the popup opens
DarkModeStores == { Absent(FALSE), Present(FALSE), Present(TRUE) }

\* the popup opened, with its empty state showing, on a storage area that
\* holds one session and any dark-mode preference
InitTheme ==
  /\ sessions = <<>>
  /\ currentRenameTimestamp = Null
  /\ \E d \in DarkModeStores :
       storage = [sessions |-> Present(<<OldSession1>>), darkMode |-> d]
  /\ tasks = <<Task("load", "queued")>>
  /\ darkTasks = <<Task("darkInit", "queued")>>
  /\ now = StartClock
  /\ sessionNameInput = <<>>
  /\ renameInput = <<>>
  /\ modalHidden = TRUE
  /\ dark = FALSE
  /\ sunIconHidden = TRUE
  /\ cards = <<>>
  /\ emptyHidden = FALSE
  /\ feedback = NoFeedback
  /\ event = Ev("init", "init")
  /\ clicks = 0
  /\ clean = TRUE

\* the dark-mode code next to the code that reads and writes the sessions
\* key: load, save, delete and rename (the restore of a session, which uses
\* neither storage key, and the clock are left out)
NextTheme ==
  \/ NextDarkMode
  \/ \E v \in SaveInputs : SaveClick(v)
  \/ \E i \in 1..Len(tasks), hostTabs \in HostTabLists : TabsQueryResolve(i, hostTabs)
  \/ \E i \in 1..Len(tasks) : TabsQueryReject(i)
  \/ SaveResume
  \/ \E ok \in BOOLEAN : StorageSetSessions(ok)
  \/ \E ok \in BOOLEAN : StorageGetSessions(ok)
  \/ LoadResume
  \/ \E c \in 1..Len(cards), answer \in BOOLEAN : DeleteClick(c, answer)
  \/ DeleteResume
  \/ \E c \in 1..Len(cards) : OpenRenameModal(c)
  \/ \E v \in RenameInputs \cup {renameInput} : ConfirmRename(v)
  \/ RenameResume

SpecTheme == InitTheme /\ [][NextTheme]_vars

TypeOK ==
  /\ currentRenameTimestamp \in Nat
  /\ now \in StartClock..(StartClock + MaxTicks)
  /\ clicks \in 0..MaxClicks
  /\ \A i \in 1..Len(sessions) : sessions[i].timestamp \in Nat
  /\ modalHidden \in BOOLEAN /\ dark \in BOOLEAN /\ emptyHidden \in BOOLEAN

(***************************************************************************)
(* Vocabulary of the properties.                                           *)
(***************************************************************************)
Last(s) == s[Len(s)]

\* s consists of white space only (the empty string included)
AllSpaces(s) == \A i \in 1..Len(s) : IsSpace(s[i])

\* r is s without its leading and trailing white space
IsTrimOf(r, s) ==
  \E a \in 0..Len(s), b \in 0..Len(s) :
    /\ a + b <= Len(s)
    /\ r = SubSeq(s, a + 1, Len(s) - b)
    /\ \A i \in 1..a : IsSpace(s[i])
    /\ \A i \in (Len(s) - b + 1)..Len(s) : IsSpace(s[i])
    /\ r # <<>> => ~IsSpace(r[1]) /\ ~IsSpace(r[Len(r)])

\* no two records of list share a timestamp
DistinctTimestamps(list) ==
  \A i, j \in 1..Len(list) : i # j => list[i].timestamp # list[j].timestamp

\* after is before without one record, the first one whose timestamp is ts;
\* every other record is kept as it was, in the same order
RemovedOne(before, after, ts) ==
  \E i \in 1..Len(before) :
    /\ before[i].timestamp = ts
    /\ \A j \in 1..(i - 1) : before[j].timestamp # ts
    /\ Len(after) = Len(before) - 1
    /\ \A j \in 1..Len(after) : after[j] = IF j < i THEN before[j] ELSE before[j + 1]

\* after is before with the name of one record, the first one whose timestamp
\* is ts, replaced by name; nothing else differs
RenamedOne(before, after, ts, name) ==
  \E i \in 1..Len(before) :
    /\ before[i].timestamp = ts
    /\ \A j \in 1..(i - 1) : before[j].timestamp # ts
    /\ Len(after) = Len(before)
    /\ \A j \in 1..Len(before) : j # i => after[j] = before[j]
    /\ DOMAIN after[i] = DOMAIN before[i]
    /\ after[i].name = name
    /\ after[i].tabs = before[i].tabs
    /\ after[i].timestamp = before[i].timestamp
    /\ after[i].tabCount = before[i].tabCount

\* reqs are the creation requests for the first Len(reqs) records of tabs,
\* in the order of the records, each with the stored URL and inactive
RequestsForPrefix(reqs, tabs) ==
  /\ Len(reqs) <= Len(tabs)
  /\ \A j \in 1..Len(reqs) : reqs[j] = [url |-> tabs[j].url, active |-> FALSE]

\* the step is the synchronous part of confirmRename
IsConfirmStep(e) ==
  e.op = "rename" /\ e.step \in {"noTarget", "blank", "notFound", "renamed"}

(***************************************************************************)
(* C1. While every storage call succeeds and only saves run, each save     *)
(* whose write is applied leaves the persisted list, as loadSessions would *)
(* read it back, equal to the list persisted before followed by the new    *)
(* session: nothing saved earlier is missing, duplicated or reordered.     *)
(***************************************************************************)
C1_SaveAppendsToPersisted ==
  [][(clean' /\ event'.op = "save" /\ event'.step = "written")
       => LoadResult(storage'.sessions)
            = LoadResult(storage.sessions) \o <<Last(event'.list)>>]_vars

(***************************************************************************)
(* C2. In every reachable state no two sessions of the in-memory list, and *)
(* no two sessions of the persisted list, share a timestamp.               *)
(***************************************************************************)
C2_TimestampsUnique ==
  /\ DistinctTimestamps(sessions)
  /\ DistinctTimestamps(LoadResult(storage.sessions))

(***************************************************************************)
(* C3. A confirmed delete of a timestamp that is in the list removes       *)
(* exactly one record from the in-memory list, the first one with that     *)
(* timestamp, keeps the others as they were and in order, and issues a     *)
(* write of the resulting list.  As claimed: once the storage area has     *)
(* dealt with that write the persisted list is that resulting list.        *)
(***************************************************************************)
C3_DeleteInMemory ==
  (event'.op = "delete" /\ event'.step = "spliced")
    => /\ RemovedOne(sessions, sessions', event'.ts)
       /\ Last(tasks').op = "delete" /\ Last(tasks').pc = "queued"
       /\ Last(tasks').list = sessions'

C3_DeleteRemovesExactlyOneEverywhere ==
  [][/\ C3_DeleteInMemory
     /\ (event'.op = "delete" /\ event'.step \in {"written", "rejected"})
          => storage'.sessions = Present(tasks[FirstQueued].list)]_vars

\* C3 as amended: the persisted list becomes the resulting list when the
\* write is applied; when the write is rejected the persisted list stays as
\* it was and only the in-memory list has lost the record.
C3_DeleteRemovesExactlyOne ==
  [][/\ C3_DeleteInMemory
     /\ (event'.op = "delete" /\ event'.step = "written")
          => storage'.sessions = Present(tasks[FirstQueued].list)
     /\ (event'.op = "delete" /\ event'.step = "rejected")
          => storage' = storage /\ sessions' = sessions]_vars

\* the middle one of three sessions was deleted, in memory and in storage
C3_Witness ==
  /\ event.op = "delete" /\ event.step = "written"
  /\ event.ts = OldSession2.timestamp
  /\ sessions = <<OldSession1, OldSession3>>
  /\ storage.sessions = Present(<<OldSession1, OldSession3>>)

(***************************************************************************)
(* C4. A rename confirmed with a name that is not blank after trimming     *)
(* changes only the name of the session whose timestamp is the rename      *)
(* target (to the trimmed input): its tabs, timestamp, tabCount and        *)
(* position and every other session are unchanged, and the write it issues *)
(* carries exactly that list.                                              *)
(***************************************************************************)
C4_RenameChangesOnlyName ==
  [][(IsConfirmStep(event') /\ currentRenameTimestamp # Null
        /\ ~AllSpaces(event'.input)
        /\ \E i \in 1..Len(sessions) : sessions[i].timestamp = currentRenameTimestamp)
       => /\ \E name \in {sessions'[i].name : i \in 1..Len(sessions')} :
               /\ IsTrimOf(name, event'.input)
               /\ RenamedOne(sessions, sessions', currentRenameTimestamp, name)
          /\ Last(tasks').op = "rename" /\ Last(tasks').pc = "queued"
          /\ Last(tasks').list = sessions']_vars

\* one of three sessions was renamed to the trimmed input
C4_Witness ==
  /\ event.op = "rename" /\ event.step = "renamed"
  /\ event.input = <<"r", " ">>
  /\ Len(sessions) = 3
  /\ \E i \in 1..3 : sessions[i].timestamp = event.ts /\ sessions[i].name = <<"r">>

(***************************************************************************)
(* C5. A rename confirmed, while a rename target is set, with an empty or  *)
(* white-space-only name changes neither the in-memory list nor the        *)
(* persisted storage, issues no storage write and shows the error toast    *)
(* "Please enter a name".                                                  *)
(***************************************************************************)
C5_BlankRenameRejected ==
  [][(IsConfirmStep(event') /\ currentRenameTimestamp # Null /\ AllSpaces(event'.input))
       => /\ sessions' = sessions
          /\ storage' = storage
          /\ tasks' = tasks
          /\ feedback' = [message |-> <<"Please enter a name">>, type |-> "error"]]_vars

\* a white-space-only name was confirmed for a session of the list
C5_Witness ==
  /\ event.op = "rename" /\ event.step = "blank"
  /\ event.input = <<" ">>
  /\ \E i \in 1..Len(sessions) : sessions[i].timestamp = event.ts
  /\ feedback.type = "error"

(***************************************************************************)
(* C6. As claimed: a restore of a session with N tab records ends with     *)
(* exactly N creation requests issued, in the order of the records, each   *)
(* with the stored URL and active = false.                                 *)
(***************************************************************************)
C6_RestoreIssuesAllRequests ==
  (event.op = "open" /\ event.step \in {"done", "failed"})
    => /\ Len(event.reqs) = Len(event.tabs)
       /\ RequestsForPrefix(event.reqs, event.tabs)

\* C6 as amended: the requests a restore issues are those for the stored
\* records, in stored order, each with the stored URL and active = false;
\* there are exactly N of them when every creation succeeds and exactly k of
\* them when the k-th creation is rejected.
C6_RestoreIssuesRequestsInOrder ==
  /\ (event.op = "open" /\ event.step = "start")
       => \E i \in 1..Len(sessions) :
            /\ sessions[i].timestamp = event.ts
            /\ \A j \in 1..(i - 1) : sessions[j].timestamp # event.ts
            /\ Last(tasks).tabs = sessions[i].tabs
            /\ Len(Last(tasks).reqs) = 1
  /\ \A i \in 1..Len(tasks) :
       tasks[i].op = "open"
         => /\ Len(tasks[i].reqs) = tasks[i].k
            /\ tasks[i].k >= 1
            /\ RequestsForPrefix(tasks[i].reqs, tasks[i].tabs)
  /\ (event.op = "open" /\ event.step = "done")
       => /\ Len(event.reqs) = Len(event.tabs)
          /\ RequestsForPrefix(event.reqs, event.tabs)
          /\ feedback.type = "success"
  /\ (event.op = "open" /\ event.step = "failed")
       => /\ Len(event.reqs) >= 1
          /\ RequestsForPrefix(event.reqs, event.tabs)
          /\ feedback.type = "error"

\* a restore of a session with two tab records has ended with two requests
C6_Witness ==
  /\ event.op = "open" /\ event.step = "done"
  /\ Len(event.tabs) = 2
  /\ event.reqs = <<[url |-> TabA.url, active |-> FALSE],
                    [url |-> TabB.url, active |-> FALSE]>>

(***************************************************************************)
(* C7. When the read of loadSessions found no sessions key in storage, its *)
(* continuation makes the in-memory list the empty sequence, renders it    *)
(* and neither takes the catch block nor shows a toast.                    *)
(***************************************************************************)
C7_AbsentKeyLoadsEmpty ==
  [][/\ (event'.op = "load" /\ event'.step = "read" /\ ~storage.sessions.has)
          => \A i \in 1..Len(tasks') :
               tasks'[i].op = "load" => tasks'[i].pc = "ok" /\ ~tasks'[i].has
     /\ (event'.op = "load" /\ event'.step \in {"done", "failed"}
           /\ \E i \in 1..Len(tasks) :
                tasks[i].op = "load" /\ tasks[i].pc = "ok" /\ ~tasks[i].has)
          => /\ event'.step = "done"
             /\ sessions' = <<>>
             /\ cards' = <<>>
             /\ ~emptyHidden'
             /\ feedback' = feedback]_vars

\* loadSessions has finished on a storage area that never held the key
C7_Witness ==
  /\ event.op = "load" /\ event.step = "done"
  /\ ~storage.sessions.has
  /\ sessions = <<>>

(***************************************************************************)
(* C8. The tabs of the session a save creates are the tabs the host        *)
(* returned for the current window: one {title, url} record per tab, in    *)
(* the host's order, none filtered out, no duplicate removed.              *)
(***************************************************************************)
C8_TabsAreHostTabs ==
  [][(event'.op = "save" /\ event'.step = "pushed")
       => /\ Len(sessions') = Len(sessions) + 1
          /\ Len(Last(sessions').tabs) = Len(event'.tabs)
          /\ \A j \in 1..Len(event'.tabs) :
               /\ DOMAIN Last(sessions').tabs[j] = {"title", "url"}
               /\ Last(sessions').tabs[j].title = event'.tabs[j].title
               /\ Last(sessions').tabs[j].url = event'.tabs[j].url]_vars

\* a save has captured a window that shows the same page twice
C8_Witness ==
  /\ event.op = "save" /\ event.step = "pushed"
  /\ Len(event.tabs) = 2
  /\ event.tabs[1].url = event.tabs[2].url
  /\ Last(sessions).tabs = <<TabB, TabB>>

(***************************************************************************)
(* C9. A save is never refused for its name: with a blank or               *)
(* white-space-only input the session it creates is named "Session "       *)
(* followed by the formatted time of the click, with any other input it is *)
(* named by the trimmed input.                                             *)
(***************************************************************************)
C9_SaveNames ==
  [][/\ (event'.op = "save" /\ event'.step = "start")
          => /\ Len(tasks') = Len(tasks) + 1
             /\ Last(tasks').op = "save" /\ Last(tasks').pc = "query"
             /\ feedback' = feedback
     /\ (event'.op = "save" /\ event'.step = "pushed")
          => /\ Len(sessions') = Len(sessions) + 1
             /\ IF AllSpaces(event'.input)
                THEN Last(sessions').name = DefaultName(event'.t0)
                ELSE IsTrimOf(Last(sessions').name, event'.input)]_vars

\* a save with a white-space-only input has created a session
C9_Witness ==
  /\ event.op = "save" /\ event.step = "pushed"
  /\ event.input = <<" ", "\t">>
  /\ Last(sessions).name = DefaultName(event.t0)

(***************************************************************************)
(* C10. In every reachable state every session, in the in-memory list, in  *)
(* the persisted list and in every write on its way to storage, has        *)
(* tabCount equal to the length of its tabs.                               *)
(***************************************************************************)
CountsMatch(list) == \A i \in 1..Len(list) : list[i].tabCount = Len(list[i].tabs)

C10_TabCountIsLength ==
  /\ CountsMatch(sessions)
  /\ CountsMatch(LoadResult(storage.sessions))
  /\ \A i \in 1..Len(tasks) : CountsMatch(tasks[i].list)

\* a session created by this popup is in the in-memory and the persisted list
C10_Witness ==
  /\ storage.sessions.has
  /\ \E i \in 1..Len(storage.sessions.val) :
       storage.sessions.val[i].timestamp >= StartClock
  /\ \E i \in 1..Len(sessions) : sessions[i].timestamp >= StartClock

(***************************************************************************)
(* C11. In every reachable state at most one mutating operation (save,     *)
(* rename, delete) is in flight: while one is suspended at an await no     *)
(* second mutating handler has started, so the controller is in exactly    *)
(* one of Idle, Saving, Renaming(target), Deleting(target).                *)
(***************************************************************************)
Mutating == {"save", "delete", "rename"}

InFlight(ops) == {i \in 1..Len(tasks) : tasks[i].op \in ops}

C11_OneMutationInFlight == Cardinality(InFlight(Mutating)) <= 1

(***************************************************************************)
(* C12. Provided every host call eventually resolves or rejects, every     *)
(* started operation (save, delete, rename, open), whatever its outcome,   *)
(* eventually returns control to the idle state: whenever an operation is  *)
(* in flight, a later state has none in flight.                            *)
(***************************************************************************)
Operations == {"save", "delete", "rename", "open"}

Idle == InFlight(Operations) = {}

C12_ReturnsToIdle == ~Idle ~> Idle

\* a restore whose tab creation was rejected has ended and nothing is in flight
C12_Witness ==
  /\ event.op = "open" /\ event.step = "failed"
  /\ Idle

(***************************************************************************)
(* C13. A by-timestamp handler (open, delete, open-rename-modal,           *)
(* confirm-rename) called with a timestamp that no session of the          *)
(* in-memory list has shows "Error: Session not found" and changes         *)
(* nothing: the in-memory list, the storage area, the pending requests     *)
(* (no write, no tab creation), the rename target and the modal stay as    *)
(* they were.  As claimed this holds for every such call.                  *)
(***************************************************************************)
NoSessionHas(ts) == \A i \in 1..Len(sessions) : sessions[i].timestamp # ts

\* the step is the synchronous part of a card-button handler
IsCardCall ==
  \/ event'.op \in {"open", "delete"} /\ clicks' = clicks + 1
  \/ event'.op = "renameOpen"

\* the step is a confirmRename that has a rename target
IsConfirmCall == IsConfirmStep(event') /\ currentRenameTimestamp # Null

NotFoundNoOp ==
  /\ event'.step = "notFound"
  /\ feedback' = [message |-> <<"Error: Session not found">>, type |-> "error"]
  /\ UNCHANGED <<sessions, storage, tasks, currentRenameTimestamp, modalHidden, cards>>

C13_NotFoundAlways ==
  [][/\ (IsCardCall /\ NoSessionHas(event'.ts)) => NotFoundNoOp
     /\ (IsConfirmCall /\ NoSessionHas(currentRenameTimestamp)) => NotFoundNoOp]_vars

\* C13 as amended: confirmRename validates the name before it looks the
\* target up, so with a missing target it reports "not found" only for a
\* name that is not blank; for a blank name it reports "Please enter a name".
\* In both cases nothing changes.
C13_NotFoundIsNoOp ==
  [][/\ (IsCardCall /\ NoSessionHas(event'.ts)) => NotFoundNoOp
     /\ (IsConfirmCall /\ NoSessionHas(currentRenameTimestamp))
          => IF AllSpaces(event'.input)
             THEN /\ event'.step = "blank"
                  /\ feedback' = [message |-> <<"Please enter a name">>, type |-> "error"]
                  /\ UNCHANGED <<sessions, storage, tasks, currentRenameTimestamp,
                                 modalHidden, cards>>
             ELSE NotFoundNoOp]_vars

\* a rename was confirmed for a session that had been deleted meanwhile
C13_Witness ==
  /\ event.op = "rename" /\ event.step = "notFound"
  /\ event.input = <<"r", " ">>
  /\ NoSessionHas(currentRenameTimestamp)
  /\ currentRenameTimestamp = event.ts

(***************************************************************************)
(* C14. No step of a restore (the click, a resolved or a rejected tab      *)
(* creation, the end of the loop) changes the in-memory list or the        *)
(* storage area, and none issues a storage request: the requests that are  *)
(* not tab creations are the same before and after the step.               *)
(***************************************************************************)
NotOpen(t) == t.op # "open"

C14_OpenIsReadOnly ==
  [][event'.op = "open"
       => /\ sessions' = sessions
          /\ storage' = storage
          /\ SelectSeq(tasks', NotOpen) = SelectSeq(tasks, NotOpen)]_vars

\* a restore has opened both tabs of a session and all three sessions are
\* still there, in memory and in storage
C14_Witness ==
  /\ event.op = "open" /\ event.step = "done"
  /\ Len(event.reqs) = 2
  /\ sessions = <<OldSession1, OldSession2, OldSession3>>
  /\ storage.sessions = Present(sessions)

(***************************************************************************)
(* C15. Within one restore tab creation is strictly sequential: the        *)
(* restore has exactly one creation request outstanding while it is        *)
(* suspended, its first request is issued by the click, and every further  *)
(* request is issued by the step that resumes it after the previous        *)
(* creation has resolved, one request per resolution.                      *)
(***************************************************************************)
\* requests of restore t that have been issued and have not been settled:
\* the loop of t is in its k-th iteration, so k - 1 creations have resolved
Outstanding(t) == Len(t.reqs) - (t.k - 1)

IsOpenTask(t) == t.op = "open"

OpenTasks(ts) == SelectSeq(ts, IsOpenTask)

C15_SequentialCreates ==
  [][LET before == OpenTasks(tasks)
         after == OpenTasks(tasks')
     IN /\ \A i \in 1..Len(after) : Outstanding(after[i]) = 1
        /\ event'.op # "open" => after = before
        /\ (event'.op = "open" /\ event'.step = "start")
             => /\ Len(after) = Len(before) + 1
                /\ SubSeq(after, 1, Len(before)) = before
                /\ Len(Last(after).reqs) = 1
        /\ (event'.op = "open" /\ event'.step = "next")
             => /\ Len(after) = Len(before)
                /\ \E i \in 1..Len(before) :
                     /\ \A j \in 1..Len(before) : j # i => after[j] = before[j]
                     /\ Len(after[i].reqs) = Len(before[i].reqs) + 1
                     /\ SubSeq(after[i].reqs, 1, Len(before[i].reqs)) = before[i].reqs
                     /\ after[i].k = before[i].k + 1
        /\ (event'.op = "open" /\ event'.step \in {"done", "failed", "notFound"})
             => \A i \in 1..Len(after) : \E j \in 1..Len(before) : after[i] = before[j]]_vars

\* the first creation of a restore has resolved and the second is outstanding
C15_Witness ==
  /\ event.op = "open" /\ event.step = "next"
  /\ \E i \in 1..Len(tasks) :
       tasks[i].op = "open" /\ tasks[i].k = 2 /\ Len(tasks[i].reqs) = 2

(***************************************************************************)
(* C16. When the k-th tab creation of a restore is rejected, the restore   *)
(* ends there: the requests it has issued are those for the first k        *)
(* records (the k - 1 earlier ones have resolved, and nothing is issued to *)
(* undo them), the step issues no request for a later record or for        *)
(* anything else, and the toast is the error "Error opening session", not  *)
(* the success message.                                                    *)
(***************************************************************************)
C16_PartialFailure ==
  [][(event'.op = "open" /\ event'.step = "failed")
       => /\ \E i \in 1..Len(tasks) :
               /\ tasks[i].op = "open" /\ tasks[i].pc = "create"
               /\ event'.reqs = tasks[i].reqs
               /\ event'.tabs = tasks[i].tabs
               /\ Len(event'.reqs) = tasks[i].k
               /\ tasks' = SubSeq(tasks, 1, i - 1) \o SubSeq(tasks, i + 1, Len(tasks))
          /\ Len(event'.reqs) >= 1
          /\ RequestsForPrefix(event'.reqs, event'.tabs)
          /\ feedback' = [message |-> <<"Error opening session">>, type |-> "error"]]_vars

\* the first of two tab creations was rejected
C16_Witness ==
  /\ event.op = "open" /\ event.step = "failed"
  /\ Len(event.reqs) = 1 /\ Len(event.tabs) = 2
  /\ feedback.type = "error"

(***************************************************************************)
(* C17. As claimed: a save with an empty (blank) name is a validation      *)
(* error: the click shows an error toast, starts nothing, and no session   *)
(* is ever added for a blank name.                                         *)
(***************************************************************************)
C17_BlankSaveIsRefused ==
  [][/\ (event'.op = "save" /\ event'.step = "start" /\ AllSpaces(event'.input))
          => feedback'.type = "error" /\ tasks' = tasks /\ sessions' = sessions
     /\ (event'.op = "save" /\ event'.step = "pushed" /\ AllSpaces(event'.input))
          => sessions' = sessions]_vars

\* C17 as amended: an empty name on save is not a validation error.  The
\* click reports nothing and starts the save under the default name; once
\* the tab query resolves the session is added to the in-memory list and the
\* write of that list is issued.
C17_BlankSaveProceeds ==
  [][/\ (event'.op = "save" /\ event'.step = "start" /\ AllSpaces(event'.input))
          => /\ feedback' = feedback
             /\ sessions' = sessions /\ storage' = storage
             /\ Len(tasks') = Len(tasks) + 1
             /\ SubSeq(tasks', 1, Len(tasks)) = tasks
             /\ Last(tasks').op = "save" /\ Last(tasks').pc = "query"
             /\ Last(tasks').name = DefaultName(now)
     /\ (event'.op = "save" /\ event'.step = "pushed" /\ AllSpaces(event'.input))
          => /\ Len(sessions') = Len(sessions) + 1
             /\ SubSeq(sessions', 1, Len(sessions)) = sessions
             /\ Last(sessions').name = DefaultName(event'.t0)
             /\ Last(tasks').op = "save" /\ Last(tasks').pc = "queued"
             /\ Last(tasks').list = sessions']_vars

\* a save with an empty input has added a session and issued its write
C17_Witness ==
  /\ event.op = "save" /\ event.step = "pushed"
  /\ event.input = <<>>
  /\ Last(sessions).name = DefaultName(event.t0)
  /\ Last(tasks).op = "save" /\ Last(tasks).list = sessions

(***************************************************************************)
(* C18. Whenever nothing is in flight the persisted list, as loadSessions  *)
(* would read it, equals the in-memory list.  Stated for the runs the      *)
(* claim is surest about: every storage call so far has succeeded and the  *)
(* only mutations were saves.                                              *)
(***************************************************************************)
C18_PersistedEqualsMemoryWhenIdle ==
  (tasks = <<>> /\ clean) => sessions = LoadResult(storage.sessions)

(***************************************************************************)
(* C19. When the storage write of a save, delete or rename is rejected     *)
(* the storage area keeps its contents, and the handler's continuation     *)
(* does no more than show its generic error toast: it issues no further    *)
(* write, leaves the in-memory list as the handler changed it (no          *)
(* rollback), leaves storage alone and does not render.                    *)
(***************************************************************************)
ErrorMessage(op) ==
  CASE op = "save" -> <<"Error saving session">>
    [] op = "delete" -> <<"Error deleting session">>
    [] op = "rename" -> <<"Error renaming session">>

\* ts without one of its elements
IsOneLess(after, before) ==
  \E i \in 1..Len(before) :
    after = SubSeq(before, 1, i - 1) \o SubSeq(before, i + 1, Len(before))

C19_RejectedWriteIsAbandoned ==
  [][/\ (event'.op \in Mutating /\ event'.step = "rejected")
          => /\ storage' = storage
             /\ sessions' = sessions
             /\ Len(tasks') = Len(tasks)
             /\ cards' = cards /\ emptyHidden' = emptyHidden
     /\ (event'.op \in Mutating /\ event'.step = "failed")
          => /\ storage' = storage
             /\ sessions' = sessions
             /\ IsOneLess(tasks', tasks)
             /\ cards' = cards /\ emptyHidden' = emptyHidden
             /\ feedback' = [message |-> ErrorMessage(event'.op), type |-> "error"]]_vars

\* a delete whose write was rejected has ended: the session is gone from the
\* in-memory list, still in storage and still on display
C19_Witness ==
  /\ event.op = "delete" /\ event.step = "failed"
  /\ sessions = <<OldSession1, OldSession3>>
  /\ storage.sessions = Present(<<OldSession1, OldSession2, OldSession3>>)
  /\ Len(cards) = 3
  /\ feedback.type = "error"

(***************************************************************************)
(* C20. As claimed: in every reachable state the empty-state element is    *)
(* visible if and only if the in-memory list is empty.  Stated for the     *)
(* states after the initial load in runs where every storage call has      *)
(* succeeded and the only mutations were saves.                            *)
(***************************************************************************)
LoadPending == \E i \in 1..Len(tasks) : tasks[i].op = "load"

C20_EmptyStateTracksList ==
  (clean /\ ~LoadPending) => (~emptyHidden <=> Len(sessions) = 0)

\* C20 as amended: the empty-state element is set by renderSessions only,
\* which runs at the end of a load and after a successful write of a save,
\* delete or rename: right after each render it is visible if and only if
\* the in-memory list is empty, and there is one card per session.  Between
\* a mutation and its render, and for good after a rejected write, the
\* element shows what the list was at the last render.
IsRenderStep(e) == e.op \in {"load", "save", "delete", "rename"} /\ e.step = "done"

C20_EmptyStateAfterRender ==
  [][IF IsRenderStep(event')
     THEN /\ ~emptyHidden' <=> Len(sessions') = 0
          /\ Len(cards') = Len(sessions')
     ELSE emptyHidden' = emptyHidden /\ cards' = cards]_vars

\* the only session was deleted and the view rendered: the empty state shows
C20_Witness ==
  /\ event.op = "delete" /\ event.step = "done"
  /\ sessions = <<>>
  /\ ~emptyHidden
  /\ cards = <<>>

(***************************************************************************)
(* C21. Right after each render there is one card per session of the       *)
(* in-memory list, in reverse storage order (the newest session on top),   *)
(* each card showing its session's name and tab count and carrying its     *)
(* session's timestamp; and a card's buttons call their handlers with the  *)
(* timestamp carried by that card, not with a position in the list.        *)
(***************************************************************************)
C21_CardsNewestFirst ==
  [][/\ IsRenderStep(event')
          => /\ Len(cards') = Len(sessions')
             /\ \A i \in 1..Len(cards') :
                  LET session == sessions'[Len(sessions') + 1 - i]
                  IN /\ ParseInt(cards'[i].timestamp) = session.timestamp
                     /\ cards'[i].name = session.name
                     /\ cards'[i].badge = session.tabCount
     /\ IsCardCall
          => \E c \in 1..Len(cards) : event'.ts = ParseInt(cards[c].timestamp)]_vars

\* three sessions were loaded and rendered: the newest one is the top card
C21_Witness ==
  /\ event.op = "load" /\ event.step = "done"
  /\ sessions = <<OldSession1, OldSession2, OldSession3>>
  /\ Len(cards) = 3
  /\ ParseInt(cards[1].timestamp) = OldSession3.timestamp
  /\ ParseInt(cards[3].timestamp) = OldSession1.timestamp

(***************************************************************************)
(* C22. A confirm with a blank name while a rename target is set shows an  *)
(* error toast and leaves the modal open with the same target, and every   *)
(* confirm that renames does so for the session whose timestamp is the     *)
(* target at that moment, so a later confirm with a valid name renames the *)
(* session the modal was opened for.  When the write of a rename has       *)
(* succeeded its continuation closes the modal and clears the target.  A   *)
(* confirm with no target changes nothing.                                 *)
(***************************************************************************)
C22_RenameModal ==
  [][/\ (IsConfirmCall /\ AllSpaces(event'.input))
          => /\ feedback'.type = "error"
             /\ ~modalHidden'
             /\ currentRenameTimestamp' = currentRenameTimestamp
     /\ (event'.op = "rename" /\ event'.step = "renamed")
          => /\ event'.ts = currentRenameTimestamp
             /\ currentRenameTimestamp' = currentRenameTimestamp
             /\ modalHidden' = modalHidden
             /\ \E i \in 1..Len(sessions) :
                  /\ sessions[i].timestamp = currentRenameTimestamp
                  /\ \A j \in 1..Len(sessions) :
                       sessions'[j].name # sessions[j].name => j = i
     /\ (event'.op = "rename" /\ event'.step = "done")
          => modalHidden' /\ currentRenameTimestamp' = Null
     /\ (IsConfirmStep(event') /\ currentRenameTimestamp = Null)
          => /\ event'.step = "noTarget"
             /\ UNCHANGED <<sessions, storage, tasks, feedback, modalHidden,
                            currentRenameTimestamp, cards, emptyHidden>>]_vars

\* after a blank name was refused, a valid name was confirmed in the same
\* modal and renamed the session the modal was opened for
C22_Witness ==
  /\ event.op = "rename" /\ event.step = "renamed"
  /\ feedback = [message |-> <<"Please enter a name">>, type |-> "error"]
  /\ ~modalHidden
  /\ \E i \in 1..Len(sessions) :
       sessions[i].timestamp = currentRenameTimestamp /\ sessions[i].name = <<"r">>

(***************************************************************************)
(* C23. A delete that the user cancels at the confirm() prompt changes     *)
(* nothing: the in-memory list, the storage area, the pending requests (no *)
(* write is issued), the toast and the view are as they were.              *)
(***************************************************************************)
C23_CancelledDeleteIsNoOp ==
  [][(event'.op = "delete" /\ event'.step = "cancelled")
       => /\ \E i \in 1..Len(sessions) : sessions[i].timestamp = event'.ts
          /\ UNCHANGED <<sessions, storage, tasks, feedback, cards, emptyHidden,
                         modalHidden, currentRenameTimestamp>>]_vars

\* the delete of one of three sessions was cancelled: all three are still
\* in memory and in storage, and no toast was shown
C23_Witness ==
  /\ event.op = "delete" /\ event.step = "cancelled"
  /\ sessions = <<OldSession1, OldSession2, OldSession3>>
  /\ storage.sessions = Present(sessions)
  /\ tasks = <<>>
  /\ feedback = NoFeedback

(***************************************************************************)
(* C24. The dark-mode preference and the session list are independent: no  *)
(* step of the dark-mode code (the initial read, the toggle, the write of  *)
(* darkMode) changes the in-memory list, the persisted sessions or the     *)
(* requests for the sessions key, and the write of darkMode changes the    *)
(* darkMode key only; no other step (load, save, delete, rename, restore)  *)
(* changes the persisted darkMode, the dark class or the requests for the  *)
(* darkMode key.                                                           *)
(***************************************************************************)
DarkOps == {"dark", "darkInit"}

C24_DarkModeIndependent ==
  [][/\ event'.op \in DarkOps
          => /\ sessions' = sessions
             /\ storage'.sessions = storage.sessions
             /\ tasks' = tasks
             /\ cards' = cards
     /\ event'.op \notin DarkOps
          => /\ storage'.darkMode = storage.darkMode
             /\ dark' = dark
             /\ darkTasks' = darkTasks
     /\ DOMAIN storage' = {"sessions", "darkMode"}]_vars

\* the dark-mode preference was written while a session was in storage, and
\* the session is still there
C24_Witness ==
  /\ event.op = "dark" /\ event.step = "written"
  /\ storage.darkMode = Present(TRUE)
  /\ storage.sessions.has /\ Len(storage.sessions.val) >= 1
  /\ dark

(***************************************************************************)
(* C25. A save never loses persisted sessions: whenever the write of a     *)
(* save is applied, every session that was in the storage area before the  *)
(* write is in it after the write, however the save interleaves with the   *)
(* initial loadSessions.  Stated for runs where every storage call has     *)
(* succeeded and nothing was deleted or renamed.                           *)
(***************************************************************************)
Elements(list) == {list[i] : i \in 1..Len(list)}

C25_SaveKeepsPersisted ==
  [][(clean' /\ event'.op = "save" /\ event'.step = "written")
       => Elements(LoadResult(storage.sessions))
            \subseteq Elements(LoadResult(storage'.sessions))]_vars

(***************************************************************************)
(* C26. The install handler writes sessions = [] only over a storage area  *)
(* that holds no sessions value: whenever its write is applied, the key    *)
(* was absent just before, so it never replaces a persisted list, however  *)
(* its get and its set interleave with the writes of popup saves.          *)
(***************************************************************************)
C26_InstallNeverOverwrites ==
  [][(event'.op = "installSet" /\ event'.step = "written")
       => ~storage.sessions.has]_vars

(***************************************************************************)
(* C27. When two saves overlap and both their writes have been applied, in *)
(* the order they were issued, the persisted list and the in-memory list   *)
(* both hold both new sessions, each exactly once, the one appended first  *)
(* before the other.  Stated for two saves whose sessions differ, in runs  *)
(* where every storage call has succeeded and nothing was deleted or       *)
(* renamed.                                                                *)
(***************************************************************************)
\* a and b are each exactly once in list, a before b
OnceEachInOrder(list, a, b) ==
  \E m, n \in 1..Len(list) :
    /\ m < n
    /\ list[m] = a /\ list[n] = b
    /\ \A k \in 1..Len(list) : (list[k] = a => k = m) /\ (list[k] = b => k = n)

\* the write of save task t has been applied and t waits for its continuation
IsWrittenSave(t) == t.op = "save" /\ t.pc = "ok"

C27_OverlappingSavesKeepBoth ==
  \A i, j \in 1..Len(tasks) :
    (/\ i < j
     /\ IsWrittenSave(tasks[i]) /\ IsWrittenSave(tasks[j])
     /\ Last(tasks[i].list) # Last(tasks[j].list)
     /\ clean)
      => /\ OnceEachInOrder(LoadResult(storage.sessions),
                            Last(tasks[i].list), Last(tasks[j].list))
         /\ OnceEachInOrder(sessions, Last(tasks[i].list), Last(tasks[j].list))

(***************************************************************************)
(* C28. A success toast of a mutation ("Session saved successfully!",      *)
(* "Session deleted", "Session renamed") is put up only by the             *)
(* continuation that runs after the mutation's storage write was applied,  *)
(* and that continuation renders the view before it shows the toast: the   *)
(* cards then are those of the in-memory list.                             *)
(***************************************************************************)
SuccessMessage(op) ==
  CASE op = "save" -> <<"Session saved successfully!">>
    [] op = "delete" -> <<"Session deleted">>
    [] op = "rename" -> <<"Session renamed">>

SuccessMessages == {SuccessMessage(op) : op \in Mutating}

C28_SuccessAfterWrite ==
  [][IF event'.op \in Mutating /\ event'.step = "done"
     THEN /\ \E i \in 1..Len(tasks) :
               /\ tasks[i].op = event'.op /\ tasks[i].pc = "ok"
               /\ event'.list = tasks[i].list
               /\ tasks' = SubSeq(tasks, 1, i - 1) \o SubSeq(tasks, i + 1, Len(tasks))
          /\ feedback' = [message |-> SuccessMessage(event'.op), type |-> "success"]
          /\ Len(cards') = Len(sessions')
          /\ \A c \in 1..Len(cards') :
               ParseInt(cards'[c].timestamp)
                 = sessions'[Len(sessions') + 1 - c].timestamp
          /\ ~emptyHidden' <=> sessions' = <<>>
     ELSE feedback'.message \in SuccessMessages => feedback' = feedback]_vars

\* a rename was written, the view rendered with the new name and the toast
\* shown
C28_Witness ==
  /\ event.op = "rename" /\ event.step = "done"
  /\ feedback = [message |-> <<"Session renamed">>, type |-> "success"]
  /\ storage.sessions = Present(event.list)
  /\ \E i \in 1..Len(cards) : cards[i].name = <<"r">>

====
